---- MODULE Spec2Model ----
(***************************************************************************)
(* arena-chan-dl (src/index.js): download of an Are.na channel.            *)
(*                                                                         *)
(* The model follows one invocation of the `get` command.  A state is what *)
(* the process holds between two events of the Node.js event loop: the     *)
(* position of downloadChannel (pc), the locals that survive an await, the *)
(* outstanding requests, and the file system.  One action is one callback  *)
(* of the event loop: the synchronous code that runs from one await to the *)
(* next.  Responses of the remote API and of the file system are inputs.   *)
(*                                                                         *)
(* JavaScript numbers that reach the chunk loop are kept as records        *)
(* [nan, twice]: NaN, or the number twice/2, so that halves (2.5) and NaN  *)
(* are values the loop index and the chunk size can take.                  *)
(***************************************************************************)
EXTENDS Integers, Sequences, FiniteSets, TLC

\* ------------------------------------------------------------- constants
PER_PAGE == 100
MinChunkSize == 1
MaxChunkSize == 50

\* ---------------------------------------------------------------- bounds
\* largest number of pages the summary's length asks for
MaxPages == 2
\* largest number of blocks all pages of one run return together
MaxBlocks == 3
\* chunk sizes -1, 0, ... MaxChunk are tried (and 0.5, 1.5, 50, 50.5, 51, NaN)
MaxChunk == 2
\* a run is followed by a second run when its channel has at most this many blocks
MaxRerunBlocks == 2

\* --------------------------------------------------------------- numbers
NaN == [nan |-> TRUE, twice |-> 0]
Num(n) == [nan |-> FALSE, twice |-> 2 * n]
Halves(t) == [nan |-> FALSE, twice |-> t]

\* a < b of JavaScript: false when either side is NaN
Lt(a, b) == ~a.nan /\ ~b.nan /\ a.twice < b.twice

\* a + b of JavaScript
Plus(a, b) == IF a.nan \/ b.nan THEN NaN ELSE Halves(a.twice + b.twice)

IsInteger(a) == ~a.nan /\ a.twice % 2 = 0

\* ToIntegerOrInfinity, applied by Array.prototype.slice to its arguments:
\* NaN becomes 0, anything else is truncated towards zero
ToInteger(a) ==
    IF a.nan THEN 0
    ELSE IF a.twice >= 0 THEN a.twice \div 2 ELSE -((-a.twice) \div 2)

Min(a, b) == IF a < b THEN a ELSE b
Max(a, b) == IF a > b THEN a ELSE b

\* the positions (1-based) that arr.slice(start, end) takes of an array of
\* n elements
SlicePositions(n, start, end) ==
    LET rs == ToInteger(start)
        re == ToInteger(end)
        k == IF rs < 0 THEN Max(n + rs, 0) ELSE Min(rs, n)
        final == IF re < 0 THEN Max(n + re, 0) ELSE Min(re, n)
    IN [j \in 1..Max(final - k, 0) |-> k + j]

\* ---------------------------------------------------------------- inputs
\* the slug argument: a string, or a value that is no string
Slugs ==
    { [type |-> "string", text |-> "frog"],
      [type |-> "string", text |-> ""],
      [type |-> "number", text |-> "42"] }

\* !slug of JavaScript
Falsy(s) == s.type = "undefined" \/ s.text = "" \/ (s.type = "number" /\ s.text = "0")

ChunkSizes ==
    { Num(n) : n \in (-1)..MaxChunk }
        \cup { Halves(2 * MinChunkSize - 1), Halves(2 * MinChunkSize + 1),
               Num(MaxChunkSize), Halves(2 * MaxChunkSize + 1), Num(MaxChunkSize + 1), NaN }

\* lengths the summary may report: they ask for 0 .. MaxPages pages
Lengths ==
    {0, 1} \cup { (k - 1) * PER_PAGE + 1 : k \in 1..MaxPages } \cup { MaxPages * PER_PAGE }

\* blocks the contents endpoint may return.  image / original say whether
\* block.image and block.image.original are present, url is
\* block.image.original.url ("" when absent).
Blocks ==
    { [id |-> "1", title |-> "Red Sky", image |-> TRUE, original |-> TRUE,
       url |-> "u1", content_type |-> "image/png"],
      [id |-> "1", title |-> "red-sky", image |-> TRUE, original |-> TRUE,
       url |-> "u2", content_type |-> "image/png"],
      [id |-> "5", title |-> "", image |-> TRUE, original |-> TRUE,
       url |-> "u3", content_type |-> "application/x-unknown"],
      [id |-> "2", title |-> "", image |-> FALSE, original |-> FALSE,
       url |-> "", content_type |-> ""],
      [id |-> "3", title |-> "", image |-> TRUE, original |-> FALSE,
       url |-> "", content_type |-> "image/png"],
      [id |-> "4", title |-> "", image |-> TRUE, original |-> TRUE,
       url |-> "", content_type |-> "image/png"] }

SeqsUpTo(S, n) == UNION { [1..m -> S] : m \in 0..n }

\* the bytes the remote serves at a url
Payload(url) == <<"bytes", url>>

\* what a failed fs.writeFile may leave at the path: the file is opened
\* with flag 'w', so it is either untouched or truncated
Truncated == <<"truncated">>

\* ----------------------------------------------------------------- state
VARIABLES
    slug,        \* argv.slug
    chunkSize,   \* argv.chunkSize
    pc,          \* "start", "awaitThumb", "awaitPages", "awaitChunk", "done", "aborted"
    exitCode,    \* -1 while the process runs, then 0 or 1
    thumbReqs,   \* number of summary requests issued
    thumbState,  \* the summary request: "none", "pending", "ok", "failed"
    length,      \* length of the summary, once received
    pageReqs,    \* page number -> the page sizes of the requests issued for it
    pageState,   \* page number -> "none", "pending", "ok", "failed"
    pages,       \* page number -> contents received
    allContents, \* the flattened block list
    i,           \* the loop index of the chunk loop (a number record)
    chunk,       \* positions in allContents of the chunk being downloaded
    blk,         \* position -> "idle", "mkdir", "fetch", "write",
                 \*             "success", "skipped", "failed"
    started,     \* positions in the order downloadBlock was called
    downloaded, failed,  \* the two counters
    progress,    \* number of progress lines printed
    mkdirCalls, imageReqs, writeCalls,  \* position -> number of calls issued
    dirs,        \* directories that exist
    files,       \* set of <<path, bytes>>
    previous     \* what an earlier run of the command left and was served

vars == <<slug, chunkSize, pc, exitCode, thumbReqs, thumbState, length, pageReqs, pageState,
          pages, allContents, i, chunk, blk, started, downloaded, failed,
          progress, mkdirCalls, imageReqs, writeCalls, dirs, files, previous>>

inputVars == <<slug, chunkSize, previous>>
summaryVars == <<thumbReqs, thumbState, length>>
pageVars == <<pageReqs, pageState, pages>>
loopVars == <<allContents, i, chunk, started, downloaded, failed, progress>>
fsVars == <<dirs, files>>
callVars == <<mkdirCalls, imageReqs, writeCalls>>

Positions == 1..MaxBlocks
PageNumbers == 1..MaxPages

InFlightStates == {"mkdir", "fetch", "write"}
SettledStates == {"success", "skipped", "failed"}

\* downloadBlock calls started and not yet settled
InFlight == { k \in Positions : blk[k] \in InFlightStates }

\* the process is the first run of the command
NoPrevious ==
    [ran |-> FALSE, length |-> 0, contents |-> <<>>, succeeded |-> {}, files |-> {},
     writeFailed |-> FALSE]

Init ==
    /\ slug \in Slugs
    /\ chunkSize \in ChunkSizes
    /\ pc = "start"
    /\ exitCode = -1
    /\ thumbReqs = 0
    /\ thumbState = "none"
    /\ length = 0
    /\ pageReqs = [p \in PageNumbers |-> <<>>]
    /\ pageState = [p \in PageNumbers |-> "none"]
    /\ pages = [p \in PageNumbers |-> <<>>]
    /\ allContents = <<>>
    /\ i = Num(0)
    /\ chunk = <<>>
    /\ blk = [k \in Positions |-> "idle"]
    /\ started = <<>>
    /\ downloaded = 0
    /\ failed = 0
    /\ progress = 0
    /\ mkdirCalls = [k \in Positions |-> 0]
    /\ imageReqs = [k \in Positions |-> 0]
    /\ writeCalls = [k \in Positions |-> 0]
    /\ dirs = {}
    /\ files = {}
    /\ previous = NoPrevious

\* ------------------------------------------------------------ validation
\* variant: the upper limit of the chunk size is not checked
ValidInputsNoUpperLimit(s, c) ==
    /\ ~(Falsy(s) \/ s.type # "string")
    /\ ~Lt(c, Num(MinChunkSize))

\* lines 113-119: the two checks that throw before any I/O
ValidInputs(s, c) ==
    /\ ~(Falsy(s) \/ s.type # "string")
    /\ ~(Lt(c, Num(MinChunkSize)) \/ Lt(Num(MaxChunkSize), c))

\* an error thrown out of downloadChannel: the command handler catches it
\* and calls process.exit(1), which drops every outstanding request
ExitWithError ==
    /\ pc' = "aborted"
    /\ exitCode' = 1

\* the handler calls downloadChannel: validation, then the summary request
CallDownloadChannel ==
    /\ pc = "start"
    /\ IF ValidInputs(slug, chunkSize)
       THEN /\ thumbReqs' = thumbReqs + 1
            /\ thumbState' = "pending"
            /\ pc' = "awaitThumb"
            /\ UNCHANGED exitCode
       ELSE /\ ExitWithError
            /\ UNCHANGED <<thumbReqs, thumbState>>
    /\ UNCHANGED <<inputVars, length, pageVars, loopVars, blk, callVars, fsVars>>

\* --------------------------------------------------------------- summary
\* variant: the page count is rounded down
TotalPagesFloor(L) == L \div PER_PAGE

\* Math.ceil(length / PER_PAGE)
TotalPages(L) == (L + PER_PAGE - 1) \div PER_PAGE

\* variant: an empty channel is reported as an error
EmptyChannelThrows ==
    /\ ExitWithError
    /\ UNCHANGED pageVars

\* lines 134-137: empty channel, downloadChannel returns
EmptyChannelReturn ==
    /\ pc' = "done"
    /\ exitCode' = 0
    /\ UNCHANGED pageVars

\* lines 140-147: every page request is issued, then Promise.all is awaited
FetchAllPages(L) ==
    /\ pageReqs' = [p \in PageNumbers |->
                      IF p <= TotalPages(L) THEN Append(pageReqs[p], PER_PAGE)
                      ELSE pageReqs[p]]
    /\ pageState' = [p \in PageNumbers |->
                      IF p <= TotalPages(L) THEN "pending" ELSE pageState[p]]
    /\ pc' = "awaitPages"
    /\ UNCHANGED <<exitCode, pages>>

\* the lengths the summary may report to this run: the remote content is
\* what an earlier run was served
RemoteLengths == IF previous.ran THEN {previous.length} ELSE Lengths

\* the summary arrives
GetThumbResolved ==
    /\ pc = "awaitThumb"
    /\ thumbState' = "ok"
    /\ \E L \in RemoteLengths :
        /\ length' = L
        /\ IF L = 0 THEN EmptyChannelReturn ELSE FetchAllPages(L)
    /\ UNCHANGED <<inputVars, thumbReqs, loopVars, blk, callVars, fsVars>>

\* the summary request fails: caught at line 185 and thrown again
GetThumbRejected ==
    /\ pc = "awaitThumb"
    /\ thumbState' = "failed"
    /\ ExitWithError
    /\ UNCHANGED <<inputVars, thumbReqs, length, pageVars, loopVars, blk, callVars,
                   fsVars>>

\* ----------------------------------------------------------------- pages
RECURSIVE FlatMapReversed(_, _)
\* variant: the pages are joined last page first
FlatMapReversed(ps, n) == IF n = 0 THEN <<>> ELSE ps[n] \o FlatMapReversed(ps, n - 1)

RECURSIVE FlatMap(_, _)
\* pages.flatMap(page => page.contents) over the first n pages
FlatMap(ps, n) == IF n = 0 THEN <<>> ELSE FlatMap(ps, n - 1) \o ps[n]

\* blocks received so far by the page requests of the run
Received == Len(FlatMap(pages, MaxPages))

\* the ways the blocks an earlier run was served are cut into the pages
\* requested, which agree with the pages already received
Cuts ==
    LET n == TotalPages(length)
        all == previous.contents
    IN { c \in [0..n -> 0..Len(all)] :
           /\ c[0] = 0
           /\ c[n] = Len(all)
           /\ \A q \in 1..n : c[q - 1] <= c[q]
           /\ \A q \in 1..n : (pageState[q] = "ok") =>
                                (pages[q] = SubSeq(all, c[q - 1] + 1, c[q])) }

\* the contents page p may arrive with: anything in a first run, the blocks
\* of the earlier run in a later one
RemotePages(p) ==
    IF previous.ran
    THEN { SubSeq(previous.contents, c[p - 1] + 1, c[p]) : c \in Cuts }
    ELSE SeqsUpTo(Blocks, MaxBlocks - Received)

\* a page arrives with its contents; its promise resolves
GetPageResolved(p) ==
    /\ pc = "awaitPages"
    /\ pageState[p] = "pending"
    /\ pageState' = [pageState EXCEPT ![p] = "ok"]
    /\ \E contents \in RemotePages(p) :
         pages' = [pages EXCEPT ![p] = contents]
    /\ UNCHANGED <<inputVars, pc, exitCode, summaryVars, pageReqs, loopVars, blk,
                   callVars, fsVars>>

\* variant: the join waits for every page before it reports the failure
GetPageRejectedWaits(p) ==
    /\ pc = "awaitPages"
    /\ pageState[p] = "pending"
    /\ pageState' = [pageState EXCEPT ![p] = "failed"]
    /\ IF \E q \in PageNumbers \ {p} : pageState[q] = "pending"
       THEN UNCHANGED <<pc, exitCode>>
       ELSE ExitWithError
    /\ UNCHANGED <<inputVars, summaryVars, pageReqs, pages, loopVars, blk, callVars,
                   fsVars>>

\* a page request fails: getPage throws again, Promise.all rejects at once,
\* line 185 catches and throws again, the handler exits
GetPageRejected(p) ==
    /\ pc = "awaitPages"
    /\ pageState[p] = "pending"
    /\ pageState' = [pageState EXCEPT ![p] = "failed"]
    /\ ExitWithError
    /\ UNCHANGED <<inputVars, summaryVars, pageReqs, pages, loopVars, blk, callVars,
                   fsVars>>

\* --------------------------------------------------------- downloadBlock
\* variant: only the presence of block.image is tested
UsableUrlImageOnly(block) == block.image

\* line 69: block.image?.original?.url is truthy
UsableUrl(block) == block.image /\ block.original /\ block.url # ""

\* the state a downloadBlock call is in when it first suspends or returns:
\* a skip, or the mkdir it awaits
DownloadBlockStart(block) == IF UsableUrl(block) THEN "mkdir" ELSE "skipped"

\* slugify(title, {lower, strict, trim}) on the titles of Blocks
Slugify(title) == IF title = "Red Sky" THEN "red-sky" ELSE title

\* extension(content_type) of mime-types, "" for false
Extension(contentType) == IF contentType = "image/png" THEN "png" ELSE ""

\* lines 88-95
Filename(block) ==
    LET title == IF block.title # "" THEN Slugify(block.title) ELSE block.id
        ext == IF Extension(block.content_type) # ""
               THEN Extension(block.content_type) ELSE "bin"
    IN <<block.id, "_", title, ".", ext>>

\* path.resolve(outputDir)
ResolvedOutputDir == "/cwd"

\* variant: the file is put in the output directory itself
FilePathNoChannelDir(block) == <<ResolvedOutputDir, Filename(block)>>

\* lines 79 and 96
ChannelDir == <<ResolvedOutputDir, slug.text>>
FilePath(block) == <<ResolvedOutputDir, slug.text, Filename(block)>>

\* variant: a path that holds a file keeps it
WriteFileKeepExisting(fs, path, data) ==
    IF \E f \in fs : f[1] = path THEN fs ELSE fs \cup { <<path, data>> }

\* variant: a path that holds a file is kept and the data goes to a copy
WriteFileNoClobber(fs, path, data) ==
    IF \E f \in fs : f[1] = path
    THEN { f \in fs : f[1] # Append(path, "copy") } \cup { <<Append(path, "copy"), data>> }
    ELSE fs \cup { <<path, data>> }

\* fs.writeFile: the path holds the data, whatever it held
WriteFile(fs, path, data) == { f \in fs : f[1] # path } \cup { <<path, data>> }

\* variant: the error is thrown again out of downloadBlock and of the join
BlockFailedThrows(k) ==
    /\ blk' = [blk EXCEPT ![k] = "failed"]
    /\ ExitWithError

\* an error caught at line 102 becomes the outcome of the block
BlockFailed(k) ==
    /\ blk' = [blk EXCEPT ![k] = "failed"]
    /\ UNCHANGED <<pc, exitCode>>

\* fs.mkdir resolves: the image request is issued
MkdirResolved(k) ==
    /\ pc = "awaitChunk"
    /\ blk[k] = "mkdir"
    /\ dirs' = dirs \cup {ChannelDir}
    /\ imageReqs' = [imageReqs EXCEPT ![k] = @ + 1]
    /\ blk' = [blk EXCEPT ![k] = "fetch"]
    /\ UNCHANGED <<inputVars, pc, exitCode, summaryVars, pageVars, loopVars,
                   mkdirCalls, writeCalls, files>>

MkdirRejected(k) ==
    /\ pc = "awaitChunk"
    /\ blk[k] = "mkdir"
    /\ BlockFailed(k)
    /\ UNCHANGED <<inputVars, summaryVars, pageVars, loopVars, callVars, fsVars>>

\* the image arrives: the file name is computed and the write is issued
ImageResolved(k) ==
    /\ pc = "awaitChunk"
    /\ blk[k] = "fetch"
    /\ writeCalls' = [writeCalls EXCEPT ![k] = @ + 1]
    /\ blk' = [blk EXCEPT ![k] = "write"]
    /\ UNCHANGED <<inputVars, pc, exitCode, summaryVars, pageVars, loopVars,
                   mkdirCalls, imageReqs, fsVars>>

ImageRejected(k) ==
    /\ pc = "awaitChunk"
    /\ blk[k] = "fetch"
    /\ BlockFailed(k)
    /\ UNCHANGED <<inputVars, summaryVars, pageVars, loopVars, callVars, fsVars>>

\* fs.writeFile resolves: success
WriteResolved(k) ==
    /\ pc = "awaitChunk"
    /\ blk[k] = "write"
    /\ files' = WriteFile(files, FilePath(allContents[k]), Payload(allContents[k].url))
    /\ blk' = [blk EXCEPT ![k] = "success"]
    /\ UNCHANGED <<inputVars, pc, exitCode, summaryVars, pageVars, loopVars,
                   callVars, dirs>>

\* fs.writeFile rejects: the file is untouched or left truncated
WriteRejected(k) ==
    /\ pc = "awaitChunk"
    /\ blk[k] = "write"
    /\ \/ files' = files
       \/ files' = WriteFile(files, FilePath(allContents[k]), Truncated)
    /\ BlockFailed(k)
    /\ UNCHANGED <<inputVars, summaryVars, pageVars, loopVars, callVars, dirs>>

\* ------------------------------------------------------------ chunk loop
Range(s) == { s[j] : j \in 1..Len(s) }

\* variant: the slice takes one block too many
ChunkPositionsOverlap(n, iv, c) == SlicePositions(n, iv, Plus(Plus(iv, c), Num(1)))

\* line 157: allContents.slice(i, i + chunkSize), as positions
ChunkPositions(n, iv, c) == SlicePositions(n, iv, Plus(iv, c))

\* variant: a join that also resolves as soon as one call has failed
AllSettledFailFast(b, c) ==
    \/ \A j \in 1..Len(c) : b[c[j]] \in SettledStates
    \/ \E j \in 1..Len(c) : b[c[j]] = "failed"

\* variant: a join that resolves only when every call has succeeded
AllSettledOnlySuccess(b, c) == \A j \in 1..Len(c) : b[c[j]] = "success"

\* Promise.allSettled(results) resolves: every call of the chunk has settled
AllSettled(b, c) == \A j \in 1..Len(c) : b[c[j]] \in SettledStates

\* lines 156-166 and 184: the test of the loop at index iv, then either the
\* calls of downloadBlock for the next chunk or the final summary
EnterLoop(iv, contents) ==
    /\ i' = iv
    /\ IF Lt(iv, Num(Len(contents)))
       THEN LET c == ChunkPositions(Len(contents), iv, chunkSize) IN
            /\ chunk' = c
            /\ started' = started \o c
            /\ blk' = [k \in Positions |->
                         IF k \in Range(c) THEN DownloadBlockStart(contents[k])
                         ELSE blk[k]]
            /\ mkdirCalls' = [k \in Positions |->
                                IF k \in Range(c) /\ DownloadBlockStart(contents[k]) = "mkdir"
                                THEN mkdirCalls[k] + 1 ELSE mkdirCalls[k]]
            /\ pc' = "awaitChunk"
            /\ UNCHANGED exitCode
       ELSE /\ chunk' = <<>>
            /\ pc' = "done"
            /\ exitCode' = 0
            /\ UNCHANGED <<started, blk, mkdirCalls>>

\* Promise.all resolves: lines 148-157.  pages is not read after line 148
\* and is dropped from the state there.
PagesResolved ==
    /\ pc = "awaitPages"
    /\ \A p \in 1..TotalPages(length) : pageState[p] = "ok"
    /\ allContents' = FlatMap(pages, TotalPages(length))
    /\ pages' = [p \in PageNumbers |-> <<>>]
    /\ downloaded' = 0
    /\ failed' = 0
    /\ EnterLoop(Num(0), allContents')
    /\ UNCHANGED <<inputVars, summaryVars, pageReqs, pageState, progress, imageReqs,
                   writeCalls, fsVars>>

\* number of results counted as downloaded at lines 169-175
Successes(b, c) == Cardinality({ j \in 1..Len(c) : b[c[j]] = "success" })

\* Promise.allSettled resolves: lines 169-181, then the loop again
ChunkSettled ==
    /\ pc = "awaitChunk"
    /\ AllSettled(blk, chunk)
    /\ downloaded' = downloaded + Successes(blk, chunk)
    /\ failed' = failed + (Len(chunk) - Successes(blk, chunk))
    /\ progress' = progress + 1
    /\ EnterLoop(Plus(i, chunkSize), allContents)
    /\ UNCHANGED <<inputVars, summaryVars, pageVars, allContents, imageReqs,
                   writeCalls, fsVars>>

\* --------------------------------------------------------- specification
Next ==
    \/ CallDownloadChannel
    \/ GetThumbResolved
    \/ GetThumbRejected
    \/ \E p \in PageNumbers : GetPageResolved(p)
    \/ \E p \in PageNumbers : GetPageRejected(p)
    \/ PagesResolved
    \/ \E k \in Positions : MkdirResolved(k)
    \/ \E k \in Positions : MkdirRejected(k)
    \/ \E k \in Positions : ImageResolved(k)
    \/ \E k \in Positions : ImageRejected(k)
    \/ \E k \in Positions : WriteResolved(k)
    \/ \E k \in Positions : WriteRejected(k)
    \/ ChunkSettled

Spec == Init /\ [][Next]_vars

\* The command is run again after a run that ended done, with the same
\* arguments and in the same directory: a new process, the file system as
\* the first run left it
RunAgain ==
    /\ pc = "done"
    /\ ~previous.ran
    /\ Len(allContents) <= MaxRerunBlocks
    /\ previous' = [ran |-> TRUE, length |-> length, contents |-> allContents,
                    succeeded |-> { k \in Positions : blk[k] = "success" },
                    files |-> files,
                    writeFailed |-> \E k \in Positions :
                                        blk[k] = "failed" /\ writeCalls[k] = 1]
    /\ pc' = "start"
    /\ exitCode' = -1
    /\ thumbReqs' = 0
    /\ thumbState' = "none"
    /\ length' = 0
    /\ pageReqs' = [p \in PageNumbers |-> <<>>]
    /\ pageState' = [p \in PageNumbers |-> "none"]
    /\ pages' = [p \in PageNumbers |-> <<>>]
    /\ allContents' = <<>>
    /\ i' = Num(0)
    /\ chunk' = <<>>
    /\ blk' = [k \in Positions |-> "idle"]
    /\ started' = <<>>
    /\ downloaded' = 0
    /\ failed' = 0
    /\ progress' = 0
    /\ mkdirCalls' = [k \in Positions |-> 0]
    /\ imageReqs' = [k \in Positions |-> 0]
    /\ writeCalls' = [k \in Positions |-> 0]
    /\ UNCHANGED <<slug, chunkSize, dirs, files>>

NextAgain ==
    \/ Next
    \/ RunAgain

\* two runs of the command, the second against the remote content and the
\* output directory of the first
SpecAgain == Init /\ [][NextAgain]_vars

\* The run under the assumption that every issued request and file system
\* operation completes or fails (axios timeout of lines 47 and 84, the
\* operating system for lines 80 and 98) and that the event loop runs a
\* continuation that is ready.
FairSpec ==
    /\ Spec
    /\ WF_vars(CallDownloadChannel)
    /\ WF_vars(GetThumbResolved \/ GetThumbRejected)
    /\ \A p \in PageNumbers : WF_vars(GetPageResolved(p) \/ GetPageRejected(p))
    /\ WF_vars(PagesResolved)
    /\ \A k \in Positions : WF_vars(MkdirResolved(k) \/ MkdirRejected(k))
    /\ \A k \in Positions : WF_vars(ImageResolved(k) \/ ImageRejected(k))
    /\ \A k \in Positions : WF_vars(WriteResolved(k) \/ WriteRejected(k))
    /\ WF_vars(ChunkSettled)

\* ================================================================ claims
StartedSet == Range(started)
AllPositions == 1..Len(allContents)

\* the chunk size is an integer in [1, 50]
IntegerChunkSize ==
    /\ IsInteger(chunkSize)
    /\ chunkSize.twice >= 2 * MinChunkSize
    /\ chunkSize.twice <= 2 * MaxChunkSize

\* C1: downloadBlock calls of a chunk start only when every call started
\* before (all earlier chunks) has settled, and a chunk that settles with a
\* failed block is followed by the next chunk: the run ends only when every
\* block of the list was started.
C1_ChunksSequential ==
    [][ /\ (started' # started) =>
              (\A k \in StartedSet : blk[k] \in SettledStates)
        /\ (pc = "awaitChunk" /\ pc' # "awaitChunk" /\ (\E k \in Positions : blk[k] = "failed")) =>
              (pc' = "done" /\ StartedSet = AllPositions)
      ]_vars

\* C1 witness: a second chunk is in flight after a block of an earlier chunk failed
C1_Witness ==
    /\ pc = "awaitChunk"
    /\ InFlight # {}
    /\ \E k \in StartedSet \ Range(chunk) : blk[k] = "failed"

\* C2: with an integer chunk size in [1,50], downloadBlock is called for the
\* positions 1, 2, 3, ... in this order, each once; when the run is done it
\* was called for every block; a chunk has at most chunkSize blocks and fewer
\* only when it ends the list.
C2_ExactlyOnceInOrder ==
    IntegerChunkSize =>
        /\ \A j \in 1..Len(started) : started[j] = j
        /\ Len(started) <= Len(allContents)
        /\ (pc = "done") => (Len(started) = Len(allContents))
        /\ (pc = "awaitChunk") =>
              /\ Len(chunk) >= 1
              /\ 2 * Len(chunk) <= chunkSize.twice
              /\ (2 * Len(chunk) < chunkSize.twice) => (chunk[Len(chunk)] = Len(allContents))

\* C2 witness: three blocks in chunks of two, the last chunk has one block
C2_Witness ==
    /\ pc = "done"
    /\ chunkSize = Num(2)
    /\ Len(allContents) = 3
    /\ started = <<1, 2, 3>>

\* no request and no file system call was issued for any block
NoBlockWork ==
    /\ started = <<>>
    /\ \A k \in Positions : mkdirCalls[k] = 0 /\ imageReqs[k] = 0 /\ writeCalls[k] = 0
    /\ dirs = {}
    /\ files = {}

NoPageRequest == \A p \in PageNumbers : pageReqs[p] = <<>>

\* C3: with a chunk size in [1,50], at most chunkSize downloadBlock calls
\* are in flight.
C3_InFlightAtMostChunkSize ==
    (~chunkSize.nan /\ chunkSize.twice >= 2 * MinChunkSize
                    /\ chunkSize.twice <= 2 * MaxChunkSize) =>
        2 * Cardinality(InFlight) <= chunkSize.twice

\* the bound of C3 for the integer chunk sizes
InFlightAtMostIntegerChunkSize ==
    IntegerChunkSize => 2 * Cardinality(InFlight) <= chunkSize.twice

\* C4: once a downloadBlock call was made the run never aborts, whatever
\* fails for the blocks; when it is done the exit code is 0, every block of
\* the list was started, has an outcome and was counted.
C4_BlockFailuresIsolated ==
    (started # <<>>) =>
        /\ pc \in {"awaitChunk", "done"}
        /\ exitCode # 1
        /\ (pc = "done") =>
              /\ exitCode = 0
              /\ StartedSet = AllPositions
              /\ \A k \in AllPositions : blk[k] \in SettledStates
              /\ downloaded + failed = Len(allContents)

\* C4 witness: a run is done with exit code 0 after its three blocks failed,
\* one at mkdir, one at the image request, one at the write
C4_Witness ==
    /\ pc = "done"
    /\ exitCode = 0
    /\ Len(allContents) = 3
    /\ \A k \in AllPositions : blk[k] = "failed"
    /\ \E k \in AllPositions : imageReqs[k] = 0
    /\ \E k \in AllPositions : imageReqs[k] = 1 /\ writeCalls[k] = 0
    /\ \E k \in AllPositions : writeCalls[k] = 1
    /\ failed = 3

\* C5: when the summary request or a page request has failed, the run is
\* aborted with exit code 1 and nothing was done for any block.
C5_FetchFailureAborts ==
    (thumbState = "failed" \/ \E p \in PageNumbers : pageState[p] = "failed") =>
        /\ pc = "aborted"
        /\ exitCode = 1
        /\ NoBlockWork

\* C5 witness: a page failed after another page had arrived with blocks
C5_Witness ==
    /\ pc = "aborted"
    /\ \E p, q \in PageNumbers :
          /\ pageState[p] = "failed"
          /\ pageState[q] = "ok"
          /\ pages[q] # <<>>

\* C5 witness of the summary case
C5_WitnessSummary == pc = "aborted" /\ thumbState = "failed"

\* the slug is empty or no string
InvalidSlug == slug.type # "string" \/ slug.text = ""

\* the chunk size is 0, negative, or greater than 50
ChunkSizeOutOfRange ==
    ~chunkSize.nan /\ (chunkSize.twice <= 0 \/ chunkSize.twice > 2 * MaxChunkSize)

\* C6: with an invalid slug or a chunk size that is 0, negative or above 50
\* no request is ever issued and nothing is done on the file system; once
\* downloadChannel was called the process has exited with code 1.
C6_InvalidInputNoIO ==
    (InvalidSlug \/ ChunkSizeOutOfRange) =>
        /\ thumbReqs = 0
        /\ NoPageRequest
        /\ NoBlockWork
        /\ (pc # "start") => (pc = "aborted" /\ exitCode = 1)

\* C6 witness: a run with a valid slug and chunk size 51 has exited with 1
C6_Witness ==
    /\ pc = "aborted"
    /\ exitCode = 1
    /\ ~InvalidSlug
    /\ chunkSize = Num(MaxChunkSize + 1)

\* C7: a chunk size that is no integer is rejected before any request.
C7_NonIntegerRejected ==
    (~IsInteger(chunkSize)) =>
        /\ thumbReqs = 0
        /\ (pc # "start") => (pc = "aborted" /\ exitCode = 1)

\* C8 as stated: the run is not in its fatal-error state while a page
\* request is outstanding.
C8_WaitsForAllPages ==
    (pc = "aborted") => (\A p \in PageNumbers : pageState[p] # "pending")

\* C8 amended: the step that delivers a page failure is the step that ends
\* the run with exit code 1, whatever page requests are outstanding, and no
\* step follows it.
C8_FailsAtFirstPageFailure ==
    [][ /\ pc # "aborted"
        /\ (\E p \in PageNumbers : pageState[p] = "pending" /\ pageState'[p] = "failed") =>
              (pc' = "aborted" /\ exitCode' = 1)
      ]_vars

\* C8 witness: the run has exited on a page failure with a page outstanding
C8_Witness ==
    /\ pc = "aborted"
    /\ exitCode = 1
    /\ \E p, q \in PageNumbers : pageState[p] = "failed" /\ pageState[q] = "pending"

\* C9: a summary with length 0 ends the run with exit code 0 after one
\* request, without page requests and without any work for blocks.
C9_EmptyChannel ==
    (thumbState = "ok" /\ length = 0) =>
        /\ pc = "done"
        /\ exitCode = 0
        /\ thumbReqs = 1
        /\ NoPageRequest
        /\ NoBlockWork

\* C9 witness: the summary of an empty channel was received
C9_Witness == thumbState = "ok" /\ length = 0 /\ pc = "done"

\* the block has no image, no image.original or no image.original.url
LacksUrl(block) == ~block.image \/ ~block.original \/ block.url = ""

\* C10: a block without a usable url is skipped when downloadBlock is called
\* for it, and no mkdir, no image request and no write is issued for it.
C10_NoUrlSkipped ==
    \A k \in AllPositions :
        LacksUrl(allContents[k]) =>
            /\ blk[k] \in {"idle", "skipped"}
            /\ (k \in StartedSet) => (blk[k] = "skipped")
            /\ mkdirCalls[k] = 0
            /\ imageReqs[k] = 0
            /\ writeCalls[k] = 0

\* C10 witness: blocks of the three shapes were skipped in a run that is done
C10_Witness ==
    /\ pc = "done"
    /\ \E k \in AllPositions : ~allContents[k].image /\ blk[k] = "skipped"
    /\ \E k \in AllPositions :
          allContents[k].image /\ ~allContents[k].original /\ blk[k] = "skipped"
    /\ \E k \in AllPositions :
          allContents[k].original /\ allContents[k].url = "" /\ blk[k] = "skipped"
    /\ dirs = {}

\* C12: a skipped block is no failure: the failed counter never exceeds the
\* number of blocks whose outcome is a failure.
C12_SkipNotCountedFailed ==
    failed <= Cardinality({ k \in AllPositions : blk[k] = "failed" })

\* the phase of the pipeline a position of downloadChannel belongs to:
\* Start 0, FetchedSummary 1, Downloading 3, Done 4 (FetchedAllPages, 2, is
\* passed inside the step that flattens the pages and enters the loop)
PhaseOf(at) ==
    CASE at \in {"start", "awaitThumb"} -> 0
      [] at = "awaitPages" -> 1
      [] at = "awaitChunk" -> 3
      [] at = "done" -> 4

\* C13: the phases only advance; a page request is issued only after the
\* summary was received; downloadBlock is called only after every page of
\* the run has arrived; the run aborts only from Start or FetchedSummary,
\* and nothing follows Done or the abort.
C13_PhaseOrder ==
    /\ []( /\ (\E p \in PageNumbers : pageReqs[p] # <<>>) => (thumbState = "ok")
           /\ (started # <<>>) =>
                 /\ thumbState = "ok"
                 /\ \A p \in PageNumbers : (p - 1) * PER_PAGE < length => pageState[p] = "ok"
                 /\ \A p \in PageNumbers : pageState[p] \in {"none", "ok"} )
    /\ [][ /\ pc \notin {"done", "aborted"}
           /\ (pc' = "aborted") => (PhaseOf(pc) \in {0, 1})
           /\ (pc' # "aborted") => (PhaseOf(pc') >= PhaseOf(pc))
         ]_vars

\* C13 witness: a run with two pages went through every phase and is done
C13_Witness ==
    /\ pc = "done"
    /\ length > PER_PAGE
    /\ started # <<>>
    /\ \A p \in PageNumbers : pageState[p] = "ok"

\* C14: a run that passed the validation has issued the summary request
\* once; once the summary with length L > 0 is there, page p was requested
\* once, with page size 100, when (p - 1) * 100 < L, and never otherwise;
\* this holds from the step that receives the summary on, so before any
\* page response and after any failure.
C14_RequestsOnce ==
    /\ thumbReqs <= 1
    /\ (thumbState # "none") => (thumbReqs = 1)
    /\ (thumbState # "ok") => NoPageRequest
    /\ (thumbState = "ok") =>
          \A p \in PageNumbers :
              pageReqs[p] = IF (p - 1) * 100 < length THEN <<100>> ELSE <<>>
    /\ \A p \in PageNumbers : (pageState[p] # "none") => (pageReqs[p] = <<100>>)

\* C14 witness: the second of two pages has failed; both were requested once
C14_Witness ==
    /\ length = PER_PAGE + 1
    /\ pageState[1] = "pending"
    /\ pageState[2] = "failed"
    /\ pageReqs[1] = <<100>>
    /\ pageReqs[2] = <<100>>

RECURSIVE OffsetOfPage(_, _)
\* number of blocks in the pages before page p
OffsetOfPage(ps, p) == IF p = 1 THEN 0 ELSE OffsetOfPage(ps, p - 1) + Len(ps[p - 1])

\* the pages requested in the run
RequestedPages == { p \in PageNumbers : pageReqs[p] # <<>> }

\* C15: the step that leaves the wait for the pages with success makes the
\* block list out of the pages in page order: block j of page p is at
\* position (blocks of pages 1..p-1) + j, whatever the order in which the
\* pages arrived.
C15_FlattenInPageOrder ==
    [][ (pc = "awaitPages" /\ pc' \in {"awaitChunk", "done"}) =>
           /\ Len(allContents') = OffsetOfPage(pages, Cardinality(RequestedPages) + 1)
           /\ \A p \in RequestedPages : \A j \in 1..Len(pages[p]) :
                 allContents'[OffsetOfPage(pages, p) + j] = pages[p][j]
      ]_vars

\* C15 witness: page 2 has arrived with blocks before page 1
C15_Witness ==
    /\ pc = "awaitPages"
    /\ pageState[1] = "pending"
    /\ pageState[2] = "ok"
    /\ pages[2] # <<>>

\* the state part of C16: the counters cover the blocks of the chunks that
\* have settled; when the run is done they cover the list, and downloaded
\* is the number of blocks that succeeded
CountersCoverSettledChunks ==
    /\ (pc = "awaitChunk") => (downloaded + failed = Len(started) - Len(chunk))
    /\ (pc = "done") =>
          /\ downloaded + failed = Len(allContents)
          /\ downloaded = Cardinality({ k \in AllPositions : blk[k] = "success" })

\* the step part of C16: the counters change only in a step that finds no
\* download in flight, and a progress line is printed in exactly the steps
\* that end the wait for a chunk, one line each
CountersStepAfterChunk ==
    /\ (downloaded' # downloaded \/ failed' # failed) => (InFlight = {} /\ pc = "awaitChunk")
    /\ IF pc = "awaitChunk" /\ (pc' = "done" \/ chunk' # chunk)
       THEN progress' = progress + 1
       ELSE progress' = progress

\* C16: after each chunk has settled downloaded + failed is the number of
\* blocks of the chunks settled so far, and at Done it is the length of the
\* list, with downloaded the number of successes.  (That the counters change
\* only after a whole chunk has settled, with one progress line per chunk,
\* is CountersOnlyAfterChunk.)
C16_CountersAfterChunks == CountersCoverSettledChunks

\* the step part of C16, for every chunk size
CountersOnlyAfterChunk == [][CountersStepAfterChunk]_vars

\* the state part of C16 for the chunk sizes that are numbers
CountersCoverNumeric == ~chunkSize.nan => CountersCoverSettledChunks

\* the state part of C17: per block, at most one mkdir, then at most one
\* image request, then at most one write, each only after the one before
\* has succeeded; a success has had its write, a block that failed at mkdir
\* or at the image request has had none
StepsInOrder ==
    \A k \in AllPositions :
        /\ mkdirCalls[k] <= 1 /\ imageReqs[k] <= mkdirCalls[k] /\ writeCalls[k] <= imageReqs[k]
        /\ (imageReqs[k] = 1) => (ChannelDir \in dirs)
        /\ (blk[k] = "mkdir") => (mkdirCalls[k] = 1 /\ imageReqs[k] = 0)
        /\ (blk[k] = "fetch") => (imageReqs[k] = 1 /\ writeCalls[k] = 0)
        /\ (blk[k] = "write") => (writeCalls[k] = 1)
        /\ (blk[k] = "success") => (writeCalls[k] = 1)
        /\ (blk[k] \in {"idle", "skipped"}) => (mkdirCalls[k] = 0)

\* the step part of C17: a block becomes a success only in the step that
\* completes its write, and then the bytes served at its url are at
\* {outputRoot}/{slug}/{filename}
SuccessIsCompletedWrite ==
    \A k \in AllPositions :
        (blk'[k] = "success" /\ blk[k] # "success") =>
            /\ blk[k] = "write"
            /\ <<<<ResolvedOutputDir, slug.text, Filename(allContents[k])>>,
                 Payload(allContents[k].url)>> \in files'

\* C17: downloadBlock does mkdir, image request, write in this order and
\* reports success exactly when the write completed, the bytes then being
\* at the returned path; no write is attempted after a failed mkdir or
\* image request.
C17_StepsAndSuccess ==
    /\ []StepsInOrder
    /\ [][SuccessIsCompletedWrite]_vars

\* C17 witness: in a run that is done one block succeeded and its file is
\* there, one failed at the image request and one at mkdir, without a write
C17_Witness ==
    /\ pc = "done"
    /\ \E k \in AllPositions :
          /\ blk[k] = "success"
          /\ <<FilePath(allContents[k]), Payload(allContents[k].url)>> \in files
    /\ \E k \in AllPositions : blk[k] = "failed" /\ imageReqs[k] = 1 /\ writeCalls[k] = 0
    /\ \E k \in AllPositions : blk[k] = "failed" /\ imageReqs[k] = 0 /\ writeCalls[k] = 0

\* no position is handed to downloadBlock twice
NoChunkRepeated ==
    \A j1, j2 \in 1..Len(started) : (started[j1] = started[j2]) => (j1 = j2)

\* a chunk that has settled is followed by the end of the loop or by a chunk
\* of positions that were not started before
LoopAdvances ==
    (pc = "awaitChunk" /\ (chunk' # chunk \/ pc' # pc)) =>
        \/ pc' = "done"
        \/ pc' = "awaitChunk" /\ chunk' # <<>> /\ Range(chunk') \cap StartedSet = {}

\* C18: when every request and file system operation completes or fails,
\* every run ends done or aborted, whatever the channel length and the
\* chunk size; the loop never starts a position twice and every settled
\* chunk is followed by a new chunk or by the end.
C18_Terminates ==
    /\ <>(pc \in {"done", "aborted"})
    /\ []NoChunkRepeated
    /\ [][LoopAdvances]_vars

\* C18 witness: a run is done after more than one chunk, one of them with a
\* failed block
C18_Witness ==
    /\ pc = "done"
    /\ progress >= 2
    /\ IntegerChunkSize
    /\ \E k \in AllPositions : blk[k] = "failed" /\ mkdirCalls[k] = 1

\* the iteration of the loop of lines 156-157 whose slice holds position k:
\* iteration n slices from trunc(n * chunkSize) up to trunc((n+1) * chunkSize)
ChunkOf(k) ==
    CHOOSE n \in 0..MaxBlocks :
        /\ (n * chunkSize.twice) \div 2 <= k - 1
        /\ k - 1 < ((n + 1) * chunkSize.twice) \div 2

\* the positions of downloadable blocks whose destination is path
WritersOf(path) ==
    { k \in AllPositions : UsableUrl(allContents[k]) /\ FilePath(allContents[k]) = path }

\* the state part of C19: the blocks in flight are those of iteration
\* "progress"; when the run is done, of blocks that share a destination and
\* were all written, each was counted and the one file at the destination
\* holds the payload of one of those of the last chunk among them
CollidingBlocksOverwrite ==
    /\ (pc = "awaitChunk" /\ ~chunkSize.nan) =>
           \A k \in Range(chunk) : ChunkOf(k) = progress
    /\ (pc = "done") =>
           \A j, k \in AllPositions :
               LET path == FilePath(allContents[k])
                   S == WritersOf(path)
                   last == { m \in S : \A n \in S : ChunkOf(n) <= ChunkOf(m) }
               IN (j < k /\ {j, k} \subseteq S /\ \A m \in S : blk[m] = "success") =>
                      /\ \A m \in S : mkdirCalls[m] = 1 /\ imageReqs[m] = 1 /\ writeCalls[m] = 1
                      /\ downloaded >= Cardinality(S)
                      /\ Cardinality({ f \in files : f[1] = path }) = 1
                      /\ \E m \in last : <<path, Payload(allContents[m].url)>> \in files
                      /\ (S = {j, k} /\ ChunkOf(j) < ChunkOf(k)) =>
                             <<path, Payload(allContents[k].url)>> \in files

\* the step part of C19: the file at a destination changes only when a write
\* to it completes, a successful write leaves exactly its payload there,
\* whatever was there, and the other files are left as they were
LastWriteWins ==
    /\ \A k \in AllPositions :
           (blk[k] # "success" /\ blk'[k] = "success") =>
               LET path == FilePath(allContents[k]) IN
               /\ { f \in files' : f[1] = path } = { <<path, Payload(allContents[k].url)>> }
               /\ { f \in files' : f[1] # path } = { f \in files : f[1] # path }
    /\ (files' # files) =>
           \E k \in AllPositions : blk[k] = "write" /\ blk'[k] \in {"success", "failed"}

C19_WitnessSameChunk ==
    /\ pc = "done"
    /\ \E j, k \in AllPositions :
          /\ j < k
          /\ FilePath(allContents[j]) = FilePath(allContents[k])
          /\ allContents[j].url # allContents[k].url
          /\ blk[j] = "success" /\ blk[k] = "success"
          /\ ChunkOf(j) = ChunkOf(k)
          /\ <<FilePath(allContents[j]), Payload(allContents[j].url)>> \in files

\* the blocks that succeeded in this run
Succeeded == { k \in Positions : blk[k] = "success" }

\* a second run is done and the blocks that succeeded are those of the first
SecondRunSameSuccesses ==
    /\ previous.ran
    /\ pc = "done"
    /\ Succeeded = previous.succeeded

NoWriteFailed ==
    /\ ~previous.writeFailed
    /\ ~\E k \in Positions : blk[k] = "failed" /\ writeCalls[k] = 1

\* no two succeeding blocks of one chunk have the same destination and
\* different bytes
NoRaceOnDestination ==
    \A j, k \in Succeeded :
        (/\ j < k
         /\ FilePath(allContents[j]) = FilePath(allContents[k])
         /\ allContents[j].url # allContents[k].url) => (ChunkOf(j) # ChunkOf(k))

====
